---- MODULE Spec2Model ----
(***************************************************************************)
(* Grouped bar chart (britecharts): the data-to-geometry pipeline of the   *)
(* chart closure in src/src/tasks/js-doc.js: cleanData, prepareData,       *)
(* buildScales, buildLayers, drawGroupedBar, the pointer handlers and the  *)
(* accessors that feed them.                                               *)
(***************************************************************************)
EXTENDS Integers, Sequences, FiniteSets

(***************************************************************************)
(* JavaScript values.  A value is a tagged tuple, so that a field can hold *)
(* a string, a number, NaN, undefined or an array, as in the source.       *)
(***************************************************************************)
Str(s) == <<"str", s>>
Num(n) == <<"num", n>>
NaN == <<"nan">>
Undefined == <<"undefined">>
Arr == <<"array">>

IsStr(v) == v[1] = "str"
IsNum(v) == v[1] = "num"

\* Largest integer the decimal conversions below are asked to handle.
MaxNum == 99

Digit == <<"0", "1", "2", "3", "4", "5", "6", "7", "8", "9">>

RECURSIVE IntToStr(_)
IntToStr(n) ==
    IF n < 10 THEN Digit[n + 1]
    ELSE IntToStr(n \div 10) \o Digit[(n % 10) + 1]

\* String(v), as used for property keys and by d3's keyed collections.
ToStr(v) ==
    CASE v[1] = "str" -> v[2]
      [] v[1] = "num" -> IntToStr(v[2])
      [] v[1] = "nan" -> "NaN"
      [] v[1] = "undefined" -> "undefined"
      [] OTHER -> "[object Object]"

\* Unary plus: +v.
ToNumber(v) ==
    CASE v[1] = "num" -> v
      [] v[1] = "str" ->
            IF v[2] = "" THEN Num(0)
            ELSE IF \E n \in 0..MaxNum : IntToStr(n) = v[2]
                 THEN Num(CHOOSE n \in 0..MaxNum : IntToStr(n) = v[2])
                 ELSE NaN
      [] OTHER -> NaN

\* JavaScript truthiness.
Truthy(v) ==
    CASE v[1] = "str" -> v[2] # ""
      [] v[1] = "num" -> v[2] # 0
      [] v[1] = "array" -> TRUE
      [] OTHER -> FALSE

\* a === b
StrictEq(a, b) == a = b /\ a # NaN

\* a == b
LooseEq(a, b) ==
    IF a[1] = b[1] THEN StrictEq(a, b)
    ELSE IF {a[1], b[1]} = {"str", "num"} THEN StrictEq(ToNumber(a), ToNumber(b))
    ELSE FALSE

(***************************************************************************)
(* Records of the dataset are objects over a fixed set of property names;  *)
(* a property the object does not have reads as undefined.                 *)
(***************************************************************************)
Fields == {"name", "group", "value", "topicName", "key", "values", "label"}

NoFields == [f \in Fields |-> Undefined]

\* An object literal with the three canonical fields.
Rec(n, g, v) == [NoFields EXCEPT !["name"] = n, !["group"] = g, !["value"] = v]

\* obj[k] for an object with computed property names.
Get(obj, k) == IF k \in DOMAIN obj THEN obj[k] ELSE Undefined

\* obj[k] = v
Put(obj, k, v) == [x \in (DOMAIN obj) \cup {k} |-> IF x = k THEN v ELSE obj[x]]

\* Object.assign({}, a, b)
Assign(a, b) == [x \in (DOMAIN a) \cup (DOMAIN b) |-> IF x \in DOMAIN b THEN b[x] ELSE a[x]]

EmptyObj == [x \in {} |-> Undefined]

Map(f(_), s) == [i \in 1..Len(s) |-> f(s[i])]

getName(d) == d["name"]
getValue(d) == d["value"]
getGroup(d) == d["group"]

\* arr.indexOf(elem) == pos, positions counted from 1.
uniq(arr) ==
    LET first(i) == \A j \in 1..(i - 1) : ~StrictEq(arr[j], arr[i])
        keep(i) == StrictEq(arr[i], arr[i]) /\ first(i)
        F[i \in 0..Len(arr)] ==
            IF i = 0 THEN <<>>
            ELSE IF keep(i) THEN Append(F[i - 1], arr[i]) ELSE F[i - 1]
    IN F[Len(arr)]

\* The distinct elements of arr by String(element), in order of first
\* appearance: the domain of d3's ordinal and band scales, and the key
\* order of d3.nest().
distinctByKey(arr) ==
    LET first(i) == \A j \in 1..(i - 1) : ToStr(arr[j]) # ToStr(arr[i])
        F[i \in 0..Len(arr)] ==
            IF i = 0 THEN <<>>
            ELSE IF first(i) THEN Append(F[i - 1], arr[i]) ELSE F[i - 1]
    IN F[Len(arr)]

\* Position of key k in a scale domain, 0 when it is not there.
indexOfKey(dom, k) ==
    IF \E i \in 1..Len(dom) : ToStr(dom[i]) = ToStr(k)
    THEN CHOOSE i \in 1..Len(dom) : ToStr(dom[i]) = ToStr(k)
    ELSE 0

\* d3.sum: adds +value, skipping whatever is NaN (or 0).
sum(values) ==
    LET F[i \in 0..Len(values)] ==
            IF i = 0 THEN 0
            ELSE IF IsNum(ToNumber(values[i])) THEN F[i - 1] + ToNumber(values[i])[2]
                 ELSE F[i - 1]
    IN Num(F[Len(values)])

\* d3.permute(object, keys)
permute(obj, keys) == [i \in 1..Len(keys) |-> Get(obj, ToStr(keys[i]))]

\* d3.max: the largest comparable value, undefined when there is none.
max(values) ==
    LET nums == {values[i][2] : i \in {j \in 1..Len(values) : IsNum(values[j])}}
    IN IF nums = {} THEN Undefined
       ELSE Num(CHOOSE m \in nums : \A n \in nums : n <= m)

(***************************************************************************)
(* cleanData: writes value, group, topicName and name into each record,    *)
(* in this order, reading each from the record as it is at that moment.    *)
(***************************************************************************)
cleanRecord(d, nameL, groupL, valueL) ==
    LET d1 == [d EXCEPT !["value"] = ToNumber(d[valueL])]
        d2 == [d1 EXCEPT !["group"] = d1[groupL]]
        d3 == [d2 EXCEPT !["topicName"] = d2[groupL]]
        d4 == [d3 EXCEPT !["name"] = d3[nameL]]
    IN d4

cleanData(originalData, nameL, groupL, valueL) ==
    [i \in 1..Len(originalData) |-> cleanRecord(originalData[i], nameL, groupL, valueL)]

(***************************************************************************)
(* prepareData: the canonical group order and one nested entry per         *)
(* category (d3.nest keyed by String(name), rolled up and flattened).      *)
(***************************************************************************)
prepareGroups(dat) == uniq(Map(getGroup, dat))

\* The rollup callback: ret[group] = value for truthy groups, then
\* ret.values = values.
rollup(values, groupL) ==
    LET F[i \in 0..Len(values)] ==
            IF i = 0 THEN EmptyObj
            ELSE IF Truthy(values[i][groupL])
                 THEN Put(F[i - 1], ToStr(values[i][groupL]), getValue(values[i]))
                 ELSE F[i - 1]
    IN Put(F[Len(values)], "values", Arr)

\* nestEntry keeping only the first record of the category.
nestEntryFirstOnly(dat, k, grps, groupL) ==
    LET idx == SelectSeq([i \in 1..Len(dat) |-> i],
                         LAMBDA i : ToStr(getName(dat[i])) = ToStr(k))
    IN [props |-> Put(Put(Put(EmptyObj, "total", Num(0)), "key", Str(ToStr(k))),
                      "values", Arr),
        values |-> SubSeq(idx, 1, 1)]

\* A layer object: its properties, and the array its values property
\* refers to, as the positions in dat of the records it holds (the array
\* shares the record objects with dat).
nestEntry(dat, k, grps, groupL) ==
    LET idx == SelectSeq([i \in 1..Len(dat) |-> i],
                         LAMBDA i : ToStr(getName(dat[i])) = ToStr(k))
        vals == [j \in 1..Len(idx) |-> dat[idx[j]]]
        ret == rollup(vals, groupL)
        head == Put(Put(EmptyObj, "total", sum(permute(ret, grps))), "key", Str(ToStr(k)))
    IN [props |-> Assign(head, ret), values |-> idx]

prepareTransformed(dat, grps, groupL) ==
    LET keys == distinctByKey(Map(getName, dat))
    IN [i \in 1..Len(keys) |-> nestEntry(dat, keys[i], grps, groupL)]

(***************************************************************************)
(* buildLayers: each entry copied, with one property per group.            *)
(***************************************************************************)
layerOf(item, grps) ==
    LET F[i \in 0..Len(grps)] ==
            IF i = 0 THEN EmptyObj
            ELSE Put(F[i - 1], ToStr(grps[i]), Get(item.props, ToStr(grps[i])))
    IN [props |-> Assign(item.props, F[Len(grps)]), values |-> item.values]

buildLayersOf(transformed, grps) ==
    [i \in 1..Len(transformed) |-> layerOf(transformed[i], grps)]

(***************************************************************************)
(* Scales.  A scale is a record of one shape for the three kinds the chart *)
(* uses; paddings are in tenths (1 stands for the ratio 0.1).              *)
(***************************************************************************)
NoScale ==
    [kind |-> "none", domain |-> <<>>, start |-> 0, step |-> 0, bandwidth |-> 0,
     reverse |-> FALSE, padding |-> 0, r0 |-> 0, r1 |-> 0, dmax |-> Undefined]

\* d3.scaleBand().domain(dom).rangeRound([r0, r1]).padding(pad / 10)
scaleBand(dom, r0, r1, pad) ==
    LET domain == distinctByKey(dom)
        n == Len(domain)
        reverse == r1 < r0
        lo == IF reverse THEN r1 ELSE r0
        hi == IF reverse THEN r0 ELSE r1
        den == IF 10 * n + pad > 10 THEN 10 * n + pad ELSE 10
        step == (10 * (hi - lo)) \div den
        start == lo + ((10 * (hi - lo) - step * (10 * n - pad)) + 10) \div 20
        bandwidth == (step * (10 - pad) + 5) \div 10
    IN [kind |-> "band", domain |-> domain, start |-> start, step |-> step,
        bandwidth |-> bandwidth, reverse |-> reverse, padding |-> pad,
        r0 |-> r0, r1 |-> r1, dmax |-> Undefined]

\* tickIncrement(0, m, 10) for an integer 0 < m < 100, as a step: a whole
\* number of units, or 1/k of a unit (then every integer is a multiple).
niceStep(m) ==
    IF m < 10 THEN 1
    ELSE IF m * m >= 5000 THEN 10
    ELSE IF m * m >= 1000 THEN 5
    ELSE IF m * m >= 200 THEN 2
    ELSE 1

ceilTo(m, s) == ((m + s - 1) \div s) * s

\* The upper bound of [0, m].nice()
niceMax(m) ==
    IF m <= 0 THEN m
    ELSE LET m1 == ceilTo(m, niceStep(m)) IN ceilTo(m1, niceStep(m1))

\* d3.scaleLinear().domain([0, yMax]).rangeRound([r0, r1]), niced or not
scaleLinear(yMax, r0, r1, nice) ==
    LET top == IF IsNum(yMax) THEN (IF nice THEN Num(niceMax(yMax[2])) ELSE yMax) ELSE NaN
    IN [kind |-> "linear", domain |-> <<>>, start |-> 0, step |-> 0, bandwidth |-> 0,
        reverse |-> FALSE, padding |-> 0, r0 |-> r0, r1 |-> r1, dmax |-> top]

\* scale(v): the pixel position of v, NaN or undefined as d3 returns them.
scaleAt(scale, v) ==
    CASE scale.kind = "band" ->
            LET i == indexOfKey(scale.domain, v)
                n == Len(scale.domain)
            IN IF i = 0 THEN Undefined
               ELSE IF scale.reverse THEN Num(scale.start + scale.step * (n - i))
               ELSE Num(scale.start + scale.step * (i - 1))
      [] scale.kind = "linear" ->
            LET x == ToNumber(v)
            IN IF ~IsNum(x) \/ ~IsNum(scale.dmax) THEN NaN
               ELSE IF scale.dmax[2] = 0 THEN Num((scale.r0 + scale.r1 + 1) \div 2)
               ELSE Num((2 * (scale.r0 * scale.dmax[2] + (scale.r1 - scale.r0) * x[2])
                            + scale.dmax[2]) \div (2 * scale.dmax[2]))
      [] OTHER -> Undefined

\* getYMax without the all-zero case.
getYMaxNoZeroCase(dat) == max(Map(getValue, dat))

\* getYMax: 1 when the set of values is {0}, else d3.max of the values.
getYMax(dat) ==
    LET uniqueDataPoints == {getValue(dat[i]) : i \in 1..Len(dat)}
        isAllZero == Cardinality(uniqueDataPoints) = 1 /\ Num(0) \in uniqueDataPoints
    IN IF isAllZero THEN Num(1) ELSE max(Map(getValue, dat))

(***************************************************************************)
(* The colour scale and the name-to-colour map of buildScales.             *)
(***************************************************************************)
Null == <<>>
Obj(m) == <<m>>

\* colorScale(g) on an ordinal scale with an implicit domain: an unseen key
\* joins the domain; the colour is range[(index - 1) % range.length].
ordinalDomain(dom, g) == IF indexOfKey(dom, g) = 0 THEN Append(dom, g) ELSE dom

ordinalAt(dom, range, g) ==
    IF Len(range) = 0 THEN Undefined
    ELSE Str(range[((indexOfKey(ordinalDomain(dom, g), g) - 1) % Len(range)) + 1])

\* The reduce over colorScale.domain(data.map(getName)).domain(): for each
\* category, for each record of it, memo[group] = colorScale(group).
deriveColorMap(dat, range) ==
    LET names == distinctByKey(Map(getName, dat))
        n == Len(dat)
        item(k) == names[((k - 1) \div n) + 1]
        d(k) == dat[((k - 1) % n) + 1]
        F[k \in 0..(Len(names) * n)] ==
            IF k = 0 THEN [memo |-> EmptyObj, domain |-> names]
            ELSE IF LooseEq(getName(d(k)), item(k))
                 THEN [memo |-> Put(F[k - 1].memo, ToStr(getGroup(d(k))),
                                    ordinalAt(F[k - 1].domain, range, getGroup(d(k)))),
                       domain |-> ordinalDomain(F[k - 1].domain, getGroup(d(k)))]
                 ELSE F[k - 1]
    IN F[Len(names) * n]

(***************************************************************************)
(* The chart closure.  Configuration, derived state, the record objects    *)
(* (heap: data and the layers' values arrays refer to records by their     *)
(* position in it), the svg tree and the outcome of the last handler.      *)
(* input records the array the last render was called with, as it was      *)
(* before the call; no operation reads it.                                 *)
(***************************************************************************)
VARIABLES
    margin, width, height, isLoading, isHorizontal, isAnimated,
    nameLabel, groupLabel, valueLabel, tooltipThreshold,
    betweenBarsPadding, betweenGroupsPadding, colorSchema,
    chartWidth, chartHeight, data, groups, transformedData, layers,
    xScale, xScale2, yScale, yScale2, colorScale, nameToColorMap,
    animationDelays, layerElements, svg, heap, lastEvent, input

config ==
    <<margin, width, height, isLoading, isHorizontal, isAnimated,
      nameLabel, groupLabel, valueLabel, tooltipThreshold,
      betweenBarsPadding, betweenGroupsPadding, colorSchema>>

derived ==
    <<chartWidth, chartHeight, data, groups, transformedData, layers,
      xScale, xScale2, yScale, yScale2, colorScale, animationDelays,
      layerElements, svg, heap>>

vars == <<config, derived, nameToColorMap, lastEvent, input>>

animationDelayStep == 20

\* colorHelper.colorSchemas.britecharts has six colours.
britecharts == <<"c1", "c2", "c3", "c4", "c5", "c6">>

NoSvg == [built |-> FALSE, loading |-> FALSE, listening |-> FALSE, layerEls |-> <<>>]

NoEvent ==
    [handler |-> "none", outcome |-> "none", dataPoint |-> 0,
     mouse |-> <<0, 0>>, x |-> Undefined, y |-> Undefined, colorMap |-> Null]

\* What the closure holds before the first render.
InitDerived ==
    /\ chartWidth = 0
    /\ chartHeight = 0
    /\ data = <<>>
    /\ groups = <<>>
    /\ transformedData = <<>>
    /\ layers = <<>>
    /\ xScale = NoScale
    /\ xScale2 = NoScale
    /\ yScale = NoScale
    /\ yScale2 = NoScale
    /\ colorScale = [domain |-> <<>>, range |-> <<>>]
    /\ nameToColorMap = Null
    /\ animationDelays = <<>>
    /\ layerElements = FALSE
    /\ svg = NoSvg
    /\ heap = <<>>
    /\ lastEvent = NoEvent
    /\ input = <<>>

\* The defaults of the options no modelled accessor changes.
InitFixed ==
    /\ margin = [top |-> 40, right |-> 30, bottom |-> 60, left |-> 70]
    /\ width = 960
    /\ height = 500
    /\ tooltipThreshold = 480
    /\ betweenBarsPadding = 1
    /\ betweenGroupsPadding = 1
    /\ colorSchema = britecharts

\* The closure after module() returns and the orientation is chosen.
InitChart ==
    /\ InitFixed
    /\ isLoading = FALSE
    /\ isHorizontal \in BOOLEAN
    /\ isAnimated = FALSE
    /\ nameLabel = "name"
    /\ groupLabel = "group"
    /\ valueLabel = "value"
    /\ InitDerived

\* d3.range(start, stop, step) for a positive step
range(start, stop, step) ==
    LET n == IF stop > start THEN (stop - start + step - 1) \div step ELSE 0
    IN [i \in 1..n |-> start + (i - 1) * step]

\* Number of record objects the layers refer to; they are heap[1..n].
renderedCount ==
    LET F[i \in 0..Len(layers)] ==
            IF i = 0 THEN 0 ELSE F[i - 1] + Len(layers[i].values)
    IN F[Len(layers)]

Deref(ids) == [i \in 1..Len(ids) |-> heap[ids[i]]]

Iota(n) == [i \in 1..n |-> i]

(***************************************************************************)
(* buildScales                                                             *)
(***************************************************************************)
buildXScale(dat, yMax) ==
    IF isHorizontal
    THEN scaleLinear(yMax, 0, (width - margin.left - margin.right) - 1, FALSE)
    ELSE scaleBand(Map(getName, dat), 0, width - margin.left - margin.right,
                   betweenGroupsPadding)

buildYScale(dat, yMax) ==
    IF isHorizontal
    THEN scaleBand(Map(getName, dat), height - margin.top - margin.bottom, 0,
                   betweenGroupsPadding)
    ELSE scaleLinear(yMax, height - margin.top - margin.bottom, 0, TRUE)

buildXScale2(dat) ==
    IF isHorizontal THEN xScale2
    ELSE scaleBand(Map(getGroup, dat), 0, buildXScale(dat, Undefined).bandwidth,
                   betweenGroupsPadding)

buildYScale2(dat) ==
    IF isHorizontal
    THEN scaleBand(Map(getGroup, dat), buildYScale(dat, Undefined).bandwidth, 0,
                   betweenBarsPadding)
    ELSE yScale2

\* The map derived anew at every render.
buildColorMapFresh(dat) == Obj(deriveColorMap(dat, colorSchema).memo)

\* nameToColorMap = nameToColorMap || (the map derived from the data)
buildColorMap(dat) ==
    IF nameToColorMap # Null THEN nameToColorMap
    ELSE Obj(deriveColorMap(dat, colorSchema).memo)

buildColorScale(dat) ==
    IF nameToColorMap # Null
    THEN [domain |-> distinctByKey(Map(getGroup, dat)), range |-> colorSchema]
    ELSE [domain |-> deriveColorMap(dat, colorSchema).domain, range |-> colorSchema]

(***************************************************************************)
(* drawGroupedBar: the delay table, and one g.layer per layer with one     *)
(* rect.bar per record of its values; bar i of a layer starts after        *)
(* animationDelays[i] when the chart is animated.                          *)
(***************************************************************************)
\* The delay table with its upper limit one step short.
buildDelaysShort(lyrs) ==
    range(animationDelayStep, Len(lyrs) * animationDelayStep, animationDelayStep)

buildDelays(lyrs) ==
    range(animationDelayStep, (Len(lyrs) + 1) * animationDelayStep, animationDelayStep)

\* A bar filled from the colour scale instead of the colour map.
drawBarByScale(dat, id, i, colorMap, delays) ==
    [d |-> id,
     fill |-> ordinalAt(colorScale.domain, colorSchema, getGroup(dat[id])),
     delay |-> IF ~isAnimated THEN Num(0)
               ELSE IF i <= Len(delays) THEN Num(delays[i]) ELSE Undefined]

drawBar(dat, id, i, colorMap, delays) ==
    [d |-> id,
     fill |-> Get(colorMap[1], ToStr(getGroup(dat[id]))),
     delay |-> IF ~isAnimated THEN Num(0)
               ELSE IF i <= Len(delays) THEN Num(delays[i]) ELSE Undefined]

drawLayers(dat, lyrs, colorMap, delays) ==
    [l \in 1..Len(lyrs) |->
        [key |-> lyrs[l].props["key"],
         bars |-> [i \in 1..Len(lyrs[l].values) |->
                      drawBar(dat, lyrs[l].values[i], i, colorMap, delays)]]]

\* drawGroupedBar that leaves the layers of the earlier render in place.
drawGroupedBarKeeping(dat, lyrs, colorMap, delays) ==
    svg.layerEls \o drawLayers(dat, lyrs, colorMap, delays)

\* if (layerElements) svg.selectAll('.layer').remove(), then the enter
\* selection of the layers appends one g.layer per layer.
drawGroupedBar(dat, lyrs, colorMap, delays) ==
    (IF layerElements THEN <<>> ELSE svg.layerEls)
        \o drawLayers(dat, lyrs, colorMap, delays)

shouldShowTooltip == width > tooltipThreshold

(***************************************************************************)
(* exports(_selection): one render of the chart on its container.          *)
(***************************************************************************)
\* The stages after the loading check, on the normalized records.
renderStages(cleaned) ==
    LET grps == prepareGroups(cleaned)
        transformed == prepareTransformed(cleaned, grps, groupLabel)
        lyrs == buildLayersOf(transformed, grps)
        yMax == getYMax(cleaned)
        colorMap == buildColorMap(cleaned)
        delays == buildDelays(lyrs)
    IN /\ heap' = cleaned
       /\ data' = Iota(Len(cleaned))
       /\ groups' = grps
       /\ transformedData' = transformed
       /\ xScale' = buildXScale(cleaned, yMax)
       /\ xScale2' = buildXScale2(cleaned)
       /\ yScale' = buildYScale(cleaned, yMax)
       /\ yScale2' = buildYScale2(cleaned)
       /\ colorScale' = buildColorScale(cleaned)
       /\ nameToColorMap' = colorMap
       /\ layers' = lyrs
       /\ animationDelays' = delays
       /\ layerElements' = TRUE
       /\ svg' = [built |-> TRUE, loading |-> FALSE,
                  listening |-> svg.listening \/ shouldShowTooltip,
                  layerEls |-> drawGroupedBar(cleaned, lyrs, colorMap, delays)]

\* What a render leaves alone when the chart is loading.
loadingFrame ==
    /\ svg' = [svg EXCEPT !.built = TRUE, !.loading = TRUE]
    /\ UNCHANGED <<groups, transformedData, layers, xScale, xScale2, yScale,
                   yScale2, colorScale, nameToColorMap, animationDelays,
                   layerElements>>

\* select(container).datum(_data).call(chart) with an array of new records.
exports(_data) ==
    LET cleaned == cleanData(_data, nameLabel, groupLabel, valueLabel)
        kept == renderedCount
    IN /\ chartWidth' = width - margin.left - margin.right
       /\ chartHeight' = height - margin.top - margin.bottom
       /\ IF isLoading
          THEN /\ heap' = SubSeq(heap, 1, kept) \o cleaned
               /\ data' = [i \in 1..Len(cleaned) |-> kept + i]
               /\ loadingFrame
          ELSE renderStages(cleaned)
       /\ input' = _data
       /\ UNCHANGED <<config, lastEvent>>

\* The same call again, on the array the container still holds.
exportsAgain ==
    LET cleaned == cleanData(Deref(data), nameLabel, groupLabel, valueLabel)
    IN /\ svg.built
       /\ chartWidth' = width - margin.left - margin.right
       /\ chartHeight' = height - margin.top - margin.bottom
       /\ IF isLoading
          THEN /\ heap' = [i \in 1..Len(heap) |->
                              IF \E j \in 1..Len(data) : data[j] = i
                              THEN cleaned[CHOOSE j \in 1..Len(data) : data[j] = i]
                              ELSE heap[i]]
               /\ data' = data
               /\ loadingFrame
          ELSE renderStages(cleaned)
       /\ input' = Deref(data)
       /\ UNCHANGED <<config, lastEvent>>

(***************************************************************************)
(* The hit tests.  Each returns, per layer, the first record of the layer  *)
(* that passes the test (0 when none does); every record found gets its    *)
(* values and key properties written, and the first one is the result.     *)
(***************************************************************************)
AddJs(a, b) == IF IsNum(a) /\ IsNum(b) THEN Num(a[2] + b[2]) ELSE NaN

\* adjusted >= pos && adjusted - pos <= tolerance, false when pos is NaN
within(adjusted, pos, tolerance) ==
    IsNum(pos) /\ adjusted >= pos[2] /\ adjusted - pos[2] <= tolerance

findIn(layer, test(_)) ==
    IF \E j \in 1..Len(layer.values) : test(heap[layer.values[j]])
    THEN layer.values[CHOOSE j \in 1..Len(layer.values) :
                          /\ test(heap[layer.values[j]])
                          /\ \A k \in 1..(j - 1) : ~test(heap[layer.values[k]])]
    ELSE 0

\* The bar test without its lower bound.
barTestNoLowerBound(adjustedMouseX, d2) ==
    LET pos == AddJs(scaleAt(xScale, d2[nameLabel]), scaleAt(xScale2, d2[groupLabel]))
    IN IsNum(pos) /\ adjustedMouseX - pos[2] <= xScale2.bandwidth

barTest(adjustedMouseX, d2) ==
    within(adjustedMouseX,
           AddJs(scaleAt(xScale, d2[nameLabel]), scaleAt(xScale2, d2[groupLabel])),
           xScale2.bandwidth)

getNearestDataPoint(mouseX) ==
    [l \in 1..Len(layers) |->
        findIn(layers[l], LAMBDA d2 : barTest(mouseX - margin.left, d2))]

\* The band test with a tolerance of three bandwidths.
bandTestWide(adjustedMouseY, d2) ==
    within(adjustedMouseY, scaleAt(yScale, d2[nameLabel]), yScale.bandwidth * 3)

bandTest(adjustedMouseY, d2) ==
    within(adjustedMouseY, scaleAt(yScale, d2[nameLabel]), yScale.bandwidth * 2)

getNearestDataPoint2(mouseY) ==
    [l \in 1..Len(layers) |->
        findIn(layers[l], LAMBDA d2 : bandTest(mouseY - margin.bottom, d2))]

\* nearest.length ? nearest[0] : undefined
nearestOf(found) ==
    IF \E l \in 1..Len(found) : found[l] # 0
    THEN found[CHOOSE l \in 1..Len(found) :
                   found[l] # 0 /\ \A k \in 1..(l - 1) : found[k] = 0]
    ELSE 0

\* found.values = data.values; found.key = found.name
markFound(found) ==
    [i \in 1..Len(heap) |->
        IF \E l \in 1..Len(found) : found[l] = i
        THEN [heap[i] EXCEPT !["values"] = Arr, !["key"] = heap[i]["name"]]
        ELSE heap[i]]

\* Calling .bandwidth() on a scale that is not a band scale is a TypeError.
hitTestThrows ==
    IF isHorizontal THEN yScale.kind # "band" ELSE xScale2.kind # "band"

hitTest(mouseX, mouseY) ==
    IF isHorizontal THEN getNearestDataPoint2(mouseY) ELSE getNearestDataPoint(mouseX)

Threw(name, mouseX, mouseY) ==
    [NoEvent EXCEPT !.handler = name, !.outcome = "threw", !.mouse = <<mouseX, mouseY>>]

\* Twice the x and y a handler hands to the tooltip (y can fall on a half
\* pixel).
tooltipX2(id, mouseX) ==
    IF isHorizontal THEN Num(2 * (mouseX - margin.left))
    ELSE LET x == AddJs(scaleAt(xScale, markFound(<<id>>)[id]["key"]),
                        scaleAt(xScale2, heap[id][groupLabel]))
         IN IF IsNum(x) THEN Num(2 * x[2]) ELSE NaN

tooltipY2(id, mouseY) ==
    IF isHorizontal
    THEN LET y == scaleAt(yScale, markFound(<<id>>)[id]["key"])
         IN IF IsNum(y) THEN Num(2 * y[2] + yScale.bandwidth) ELSE NaN
    ELSE Num(2 * (mouseY - margin.bottom))

handleMouseMove(mouseX, mouseY) ==
    /\ svg.listening
    /\ IF hitTestThrows
       THEN /\ lastEvent' = Threw("handleMouseMove", mouseX, mouseY)
            /\ heap' = heap
       ELSE LET found == hitTest(mouseX, mouseY)
                dataPoint == nearestOf(found)
            IN /\ heap' = markFound(found)
               /\ lastEvent' =
                    IF dataPoint # 0
                    THEN [handler |-> "handleMouseMove", outcome |-> "customMouseMove",
                          dataPoint |-> dataPoint, mouse |-> <<mouseX, mouseY>>,
                          x |-> tooltipX2(dataPoint, mouseX),
                          y |-> tooltipY2(dataPoint, mouseY),
                          colorMap |-> nameToColorMap]
                    ELSE [NoEvent EXCEPT !.handler = "handleMouseMove",
                                         !.mouse = <<mouseX, mouseY>>]
    /\ UNCHANGED <<config, nameToColorMap, chartWidth, chartHeight, data, groups,
                   transformedData, layers, xScale, xScale2, yScale, yScale2,
                   colorScale, animationDelays, layerElements, svg, input>>

handleCustomClick(mouseX, mouseY) ==
    /\ svg.listening
    /\ IF hitTestThrows
       THEN /\ lastEvent' = Threw("handleCustomClick", mouseX, mouseY)
            /\ heap' = heap
       ELSE LET found == hitTest(mouseX, mouseY)
            IN /\ heap' = markFound(found)
               /\ lastEvent' =
                    [NoEvent EXCEPT !.handler = "handleCustomClick",
                                    !.outcome = "customClick",
                                    !.dataPoint = nearestOf(found),
                                    !.mouse = <<mouseX, mouseY>>]
    /\ UNCHANGED <<config, nameToColorMap, chartWidth, chartHeight, data, groups,
                   transformedData, layers, xScale, xScale2, yScale, yScale2,
                   colorScale, animationDelays, layerElements, svg, input>>

(***************************************************************************)
(* Accessors (setters).                                                    *)
(***************************************************************************)
exports_colorMap(_x) ==
    /\ nameToColorMap' = _x
    /\ UNCHANGED <<config, derived, lastEvent, input>>

exports_isLoading(_flag) ==
    /\ isLoading' = _flag
    /\ UNCHANGED <<margin, width, height, isHorizontal, isAnimated, nameLabel,
                   groupLabel, valueLabel, tooltipThreshold, betweenBarsPadding,
                   betweenGroupsPadding, colorSchema, derived, nameToColorMap,
                   lastEvent, input>>

exports_isHorizontal(_x) ==
    /\ isHorizontal' = _x
    /\ UNCHANGED <<margin, width, height, isLoading, isAnimated, nameLabel,
                   groupLabel, valueLabel, tooltipThreshold, betweenBarsPadding,
                   betweenGroupsPadding, colorSchema, derived, nameToColorMap,
                   lastEvent, input>>

exports_isAnimated(_x) ==
    /\ isAnimated' = _x
    /\ UNCHANGED <<margin, width, height, isLoading, isHorizontal, nameLabel,
                   groupLabel, valueLabel, tooltipThreshold, betweenBarsPadding,
                   betweenGroupsPadding, colorSchema, derived, nameToColorMap,
                   lastEvent, input>>

(***************************************************************************)
(* Inputs.                                                                 *)
(***************************************************************************)
SeqsUpTo(S, n) == UNION {[1..k -> S] : k \in 0..n}

\* Datasets rendered one after the other on one chart: one bar, a second
\* group, and two categories interleaved with a repeated (category, group).
RenderData ==
    {<<Rec(Str("A"), Str("X"), Num(1))>>,
     <<Rec(Str("A"), Str("X"), Num(1)), Rec(Str("A"), Str("Y"), Num(2))>>,
     <<Rec(Str("B"), Str("Y"), Num(3)), Rec(Str("A"), Str("X"), Num(1)),
       Rec(Str("B"), Str("Y"), Num(4))>>}

\* Colour maps a caller supplies, and null to clear the override.
ColorMaps == {Null, Obj(Put(EmptyObj, "X", Str("red")))}

\* Pointer positions, relative to the svg.
Pointers == {<<-100, -100>>, <<300, 150>>, <<500, 600>>}

Init == InitChart

Next ==
    \/ \E _data \in RenderData : exports(_data)
    \/ exportsAgain
    \/ \E _x \in ColorMaps : exports_colorMap(_x)
    \/ \E _flag \in BOOLEAN : exports_isLoading(_flag)
    \/ \E p \in Pointers : handleMouseMove(p[1], p[2])
    \/ \E p \in Pointers : handleCustomClick(p[1], p[2])

Spec == Init /\ [][Next]_vars

(***************************************************************************)
(* The chart without the colorMap accessor: the caller never supplies a    *)
(* colour map.                                                             *)
(***************************************************************************)
NextDerived ==
    \/ \E _data \in RenderData : exports(_data)
    \/ exportsAgain
    \/ \E _flag \in BOOLEAN : exports_isLoading(_flag)
    \/ \E p \in Pointers : handleMouseMove(p[1], p[2])
    \/ \E p \in Pointers : handleCustomClick(p[1], p[2])

SpecDerived == Init /\ [][NextDerived]_vars

(***************************************************************************)
(* The pipeline as a function of its input: the first render of a          *)
(* configured chart, for every dataset of up to MaxLen records.            *)
(***************************************************************************)
MaxLen == 3

\* Two categories and two groups with the values 0 and 1; group names
\* that are also property names of a layer, and the empty name; a larger
\* value and a missing one.
PipelineRecords ==
    {Rec(Str("A"), Str("X"), Num(0)), Rec(Str("A"), Str("X"), Num(1)),
     Rec(Str("A"), Str("Y"), Num(0)), Rec(Str("B"), Str("X"), Num(1)),
     Rec(Str("B"), Str("Y"), Num(0))}
    \cup {Rec(Str("A"), g, Num(5)) :
              g \in {Str("total"), Str("key"), Str("values"), Str("")}}
    \cup {Rec(Str("A"), Str("X"), v) : v \in {Num(15), Undefined}}

PipelineData == SeqsUpTo(PipelineRecords, MaxLen)

InitPipeline ==
    /\ InitFixed
    /\ isLoading = FALSE
    /\ isHorizontal \in BOOLEAN
    /\ isAnimated = FALSE
    /\ nameLabel = "name"
    /\ groupLabel = "group"
    /\ valueLabel = "value"
    /\ InitDerived

NextPipeline == \E _data \in PipelineData : ~svg.built /\ exports(_data)

SpecPipeline == InitPipeline /\ [][NextPipeline]_vars

(***************************************************************************)
(* Normalization under every choice of the three field names.              *)
(***************************************************************************)
LabelNames == {"name", "group", "value", "label"}

\* Records that hold something different in each field a label can name.
LabelledRecords ==
    {[NoFields EXCEPT !["name"] = Str("A"), !["group"] = Str("X"),
                      !["value"] = Str("3"), !["label"] = Str("7")],
     [NoFields EXCEPT !["name"] = Str("B"), !["group"] = Str("Y"),
                      !["value"] = Num(4), !["label"] = Str("L")]}

LabelledData == SeqsUpTo(LabelledRecords, MaxLen)

InitClean ==
    /\ InitFixed
    /\ isLoading = FALSE
    /\ isHorizontal = FALSE
    /\ isAnimated = FALSE
    /\ nameLabel \in LabelNames
    /\ groupLabel \in LabelNames
    /\ valueLabel \in LabelNames
    /\ InitDerived

NextClean == \E _data \in LabelledData : ~svg.built /\ exports(_data)

SpecClean == InitClean /\ [][NextClean]_vars

(***************************************************************************)
(* Properties.                                                             *)
(***************************************************************************)
\* The most recent render was a non-loading one.
Rendered == svg.built /\ ~svg.loading

\* The record at position i of the array of the most recent render.
recordAt(i) == heap[data[i]]

\* The category a layer was built for: the name its records share.
categoryOf(l) == heap[layers[l].values[1]]["name"]

\* The records of the most recent render are those of its input, in order.
SameRecordsAsInput ==
    /\ Len(data) = Len(input)
    /\ \A i \in 1..Len(data) :
          /\ recordAt(i)["name"] = input[i]["name"]
          /\ recordAt(i)["group"] = input[i]["group"]

\* C1: after a non-loading render there is one layer per distinct category
\* of the input, the layers are in the order in which their categories
\* first appear, and each layer's values are exactly the records of its
\* category, each once, in input order, so that the sizes add up to the
\* number of input records.
C1_LayersPartitionInput ==
    Rendered =>
        LET n == Len(data)
            size[l \in 0..Len(layers)] ==
                IF l = 0 THEN 0 ELSE size[l - 1] + Len(layers[l].values)
        IN /\ SameRecordsAsInput
           /\ Len(layers) = Cardinality({recordAt(i)["name"] : i \in 1..n})
           /\ \A l \in 1..Len(layers) :
                 LET v == layers[l].values
                 IN /\ Len(v) > 0
                    /\ \A j \in 1..(Len(v) - 1) : v[j] < v[j + 1]
                    /\ \A j \in 1..Len(v) :
                          \E i \in 1..n : data[i] = v[j] /\ recordAt(i)["name"] = categoryOf(l)
                    /\ \A i \in 1..n :
                          recordAt(i)["name"] = categoryOf(l)
                              => \E j \in 1..Len(v) : v[j] = data[i]
           /\ \A l, m \in 1..Len(layers) :
                 l < m => layers[l].values[1] < layers[m].values[1]
           /\ size[Len(layers)] = n

\* Two categories interleaved in the input: A, B, A.
C1_Witness ==
    /\ Rendered
    /\ Len(layers) = 2
    /\ layers[1].values = <<1, 3>>
    /\ layers[2].values = <<2>>

\* The value of the last record of category c and group g, 0 when there is
\* none.
lastValueOf(c, g) ==
    LET hits == {i \in 1..Len(data) :
                    recordAt(i)["name"] = c /\ recordAt(i)["group"] = g}
    IN IF hits = {} THEN 0
       ELSE recordAt(CHOOSE i \in hits : \A j \in hits : j <= i)["value"][2]

\* The sum of lastValueOf(c, g) over the distinct groups g of the data.
sumOverGroups(c) ==
    LET firstSeen(i) == \A j \in 1..(i - 1) : recordAt(j)["group"] # recordAt(i)["group"]
        F[i \in 0..Len(data)] ==
            IF i = 0 THEN 0
            ELSE IF firstSeen(i) THEN F[i - 1] + lastValueOf(c, recordAt(i)["group"])
                 ELSE F[i - 1]
    IN F[Len(data)]

AllValuesNumeric == \A i \in 1..Len(data) : IsNum(recordAt(i)["value"])

\* C2: for a dataset with numeric values, every layer's total is the sum
\* over the groups of the dataset of the category's value for the group,
\* 0 for a group the category does not have.
C2_TotalIsSumOverGroups ==
    (Rendered /\ AllValuesNumeric) =>
        \A l \in 1..Len(layers) :
            layers[l].props["total"] = Num(sumOverGroups(categoryOf(l)))

\* The scale of the values: x when horizontal, y when vertical.
magnitudeScale == IF isHorizontal THEN xScale ELSE yScale

numericValues == {recordAt(i)["value"][2] : i \in {j \in 1..Len(data) : IsNum(recordAt(j)["value"])}}

allValuesZero == \A i \in 1..Len(data) : recordAt(i)["value"] = Num(0)

largest(S) == CHOOSE m \in S : \A n \in S : n <= m

\* C3 as stated, for a non-empty dataset of numeric values: the upper bound
\* of the magnitude domain is 1 if and only if every value is exactly 0,
\* and otherwise it is the maximum of the values.
C3_UpperBoundOneIffAllZero ==
    (Rendered /\ Len(data) > 0 /\ AllValuesNumeric) =>
        /\ magnitudeScale.dmax = Num(1) <=> allValuesZero
        /\ ~allValuesZero =>
              /\ numericValues # {}
              /\ magnitudeScale.dmax = Num(largest(numericValues))

\* C3, amended: getYMax gives 1 when every value is exactly 0 and otherwise
\* the largest numeric value (which can be 1 itself), NaN values skipped;
\* the magnitude domain ends there when horizontal, and at the nice()
\* rounding of it, never below it, when vertical; with no numeric value
\* the bound is NaN.
C3_UpperBoundFromYMax ==
    (Rendered /\ Len(data) > 0) =>
        LET expected == IF allValuesZero THEN 1 ELSE largest(numericValues)
            top == magnitudeScale.dmax
        IN IF numericValues = {} THEN top = NaN
           ELSE IF isHorizontal THEN top = Num(expected)
           ELSE /\ IsNum(top)
                /\ top[2] >= expected
                /\ top = Num(niceMax(expected))

\* Three records, all of value 0, and the bound 1.
C3_Witness ==
    /\ Rendered
    /\ Len(data) = 3
    /\ allValuesZero
    /\ magnitudeScale.dmax = Num(1)

categoryScale == IF isHorizontal THEN yScale ELSE xScale

groupScale == IF isHorizontal THEN yScale2 ELSE xScale2

\* dom holds every value of field f of the data exactly once, in the order
\* in which the values first appear.
firstSeenDistinct(dom, f) ==
    LET firstAt(v) == CHOOSE i \in 1..Len(data) :
                          recordAt(i)[f] = v /\ \A j \in 1..(i - 1) : recordAt(j)[f] # v
    IN /\ \A i \in 1..Len(data) : \E a \in 1..Len(dom) : dom[a] = recordAt(i)[f]
       /\ \A a \in 1..Len(dom) : \E i \in 1..Len(data) : dom[a] = recordAt(i)[f]
       /\ \A a, b \in 1..Len(dom) : a < b => firstAt(dom[a]) < firstAt(dom[b])

\* C9: after buildScales the domain of the category scale is the distinct
\* category keys and the domain of the group scale is the distinct group
\* keys (the canonical group order), each key once in order of first
\* appearance, and the category domain is the sequence of the layer keys.
C9_DomainsAreDistinctKeys ==
    Rendered =>
        /\ firstSeenDistinct(categoryScale.domain, "name")
        /\ firstSeenDistinct(groupScale.domain, "group")
        /\ groupScale.domain = groups
        /\ categoryScale.domain = [l \in 1..Len(layers) |-> layers[l].props["key"]]

\* The records the layers hold.
renderedIds == 1..renderedCount

\* pos(r) = categoryScale(r.category) + groupScale(r.group), vertical.
barPos(id) ==
    AddJs(scaleAt(xScale, heap[id]["name"]), scaleAt(xScale2, heap[id]["group"]))

\* The bar of record id contains the margin-corrected pointer x.
inBar(id, x) ==
    /\ IsNum(barPos(id))
    /\ barPos(id)[2] <= x - margin.left
    /\ x - margin.left <= barPos(id)[2] + xScale2.bandwidth

barCentre(id) == barPos(id)[2] + (xScale2.bandwidth \div 2) + margin.left

\* Pointer x-coordinates: far outside the chart, the pointer positions of
\* the handlers, and the edges, the centre and the outer neighbours of
\* every bar.
probeXs ==
    {-100, 1200} \cup {p[1] : p \in Pointers}
    \cup UNION {{barPos(id)[2] + margin.left + dx :
                    dx \in {-1, 0, xScale2.bandwidth \div 2, xScale2.bandwidth,
                            xScale2.bandwidth + 1}} :
                id \in {i \in renderedIds : IsNum(barPos(i))}}

\* C4: in vertical orientation getNearestDataPoint returns a record only
\* if its bar contains the margin-corrected x; it returns nothing when no
\* bar does; what it returns is the first match of the first matching
\* layer; and at the centre of a bar it returns the record of that bar
\* (the first one, when several records share the bar).
C4_VerticalHitIsInsideBar ==
    (~isHorizontal /\ layerElements) =>
        /\ \A x \in probeXs :
              LET r == nearestOf(getNearestDataPoint(x))
              IN /\ r # 0 => inBar(r, x)
                 /\ (\A id \in renderedIds : ~inBar(id, x)) => r = 0
                 /\ r # 0 =>
                       \E l \in 1..Len(layers) : \E j \in 1..Len(layers[l].values) :
                           /\ layers[l].values[j] = r
                           /\ \A i \in 1..(j - 1) : ~inBar(layers[l].values[i], x)
                           /\ \A k \in 1..(l - 1) : \A i \in 1..Len(layers[k].values) :
                                 ~inBar(layers[k].values[i], x)
        /\ nearestOf(getNearestDataPoint(-100)) = 0
        /\ \A id \in renderedIds :
              LET r == nearestOf(getNearestDataPoint(barCentre(id)))
              IN /\ r # 0
                 /\ heap[r]["name"] = heap[id]["name"]
                 /\ heap[r]["group"] = heap[id]["group"]
                 /\ \A i \in renderedIds :
                       (heap[i]["name"] = heap[id]["name"]
                            /\ heap[i]["group"] = heap[id]["group"]) => r <= i

\* A pointer move over a bar of a vertical chart has found its record.
C4_Witness ==
    /\ ~isHorizontal
    /\ layerElements
    /\ lastEvent.outcome = "customMouseMove"
    /\ lastEvent.dataPoint \in renderedIds
    /\ inBar(lastEvent.dataPoint, lastEvent.mouse[1])

\* Distance of the margin-corrected pointer y from the position of the
\* category of record id on the category scale, horizontal.
bandDistance(id, y) == (y - margin.bottom) - scaleAt(yScale, heap[id]["name"])[2]

\* Pointer y-coordinates: far outside, the pointer positions of the
\* handlers, and around one and two bandwidths from every category.
probeYs ==
    {-100, 1200} \cup {p[2] : p \in Pointers}
    \cup UNION {{scaleAt(yScale, heap[id]["name"])[2] + margin.bottom + dy :
                    dy \in {-1, 0, yScale.bandwidth, yScale.bandwidth + 1,
                            2 * yScale.bandwidth, 2 * yScale.bandwidth + 1}} :
                id \in renderedIds}

\* C5 as stated: in horizontal orientation getNearestDataPoint2 returns a
\* record of category c only if the margin-corrected y is within one
\* category bandwidth above c's position, and nothing for a coordinate
\* that is not.
C5_HorizontalHitWithinOneBandwidth ==
    (isHorizontal /\ layerElements) =>
        \A y \in probeYs :
            LET r == nearestOf(getNearestDataPoint2(y))
            IN /\ r # 0 => (0 <= bandDistance(r, y) /\ bandDistance(r, y) <= yScale.bandwidth)
               /\ (\A id \in renderedIds :
                      bandDistance(id, y) < 0 \/ bandDistance(id, y) > yScale.bandwidth)
                    => r = 0

\* C5, amended: the tolerance is twice the category bandwidth.
C5_HorizontalHitWithinTwoBandwidths ==
    (isHorizontal /\ layerElements) =>
        \A y \in probeYs :
            LET r == nearestOf(getNearestDataPoint2(y))
            IN /\ r # 0 => (0 <= bandDistance(r, y)
                              /\ bandDistance(r, y) <= 2 * yScale.bandwidth)
               /\ (\A id \in renderedIds :
                      bandDistance(id, y) < 0 \/ bandDistance(id, y) > 2 * yScale.bandwidth)
                    => r = 0

\* A pointer move on a horizontal chart has found a record more than one
\* bandwidth away from its category's position.
C5_Witness ==
    /\ isHorizontal
    /\ layerElements
    /\ lastEvent.outcome = "customMouseMove"
    /\ lastEvent.dataPoint \in renderedIds
    /\ bandDistance(lastEvent.dataPoint, lastEvent.mouse[2]) > yScale.bandwidth
    /\ bandDistance(lastEvent.dataPoint, lastEvent.mouse[2]) <= 2 * yScale.bandwidth

\* The colour map has a colour for the group of every record of data.
coversGroups ==
    /\ nameToColorMap # Null
    /\ \A i \in 1..Len(data) :
          IsStr(Get(nameToColorMap[1], ToStr(recordAt(i)["group"])))

\* C7 as stated: without an override, after a non-loading render the colour
\* map has a colour entry for every group key of that render's data.
C7_MapFromLatestRender == Rendered => coversGroups

\* C7, amended: without an override the colour map is derived by the first
\* non-loading render, from that render's data, and no later render
\* changes it.
C7_MapDerivedOnceThenKept ==
    [][/\ nameToColorMap # Null => nameToColorMap' = nameToColorMap
       /\ (nameToColorMap = Null /\ nameToColorMap' # Null)
             => (Rendered' /\ coversGroups')]_vars

\* A later render has drawn a group the derived colour map has no entry for.
C7_Witness ==
    /\ Rendered
    /\ nameToColorMap # Null
    /\ \E i \in 1..Len(data) :
          Get(nameToColorMap[1], ToStr(recordAt(i)["group"])) = Undefined

\* Every bar drawn is filled with what m holds for its record's group.
filledFrom(m) ==
    \A l \in 1..Len(svg.layerEls) : \A i \in 1..Len(svg.layerEls[l].bars) :
        svg.layerEls[l].bars[i].fill
            = Get(m[1], ToStr(heap[svg.layerEls[l].bars[i].d]["group"]))

\* A render of the chart, on new data or on the data it holds.
renderStep == (\E _data \in RenderData : exports(_data)) \/ exportsAgain

\* C8: once the colour map is a non-null override m, every step other than
\* a call of colorMap leaves it m, and every non-loading render fills its
\* bars from m.
C8_OverrideStays ==
    [][\A m \in ColorMaps \ {Null} :
          nameToColorMap = m =>
              /\ nameToColorMap' = m \/ \E _x \in ColorMaps : exports_colorMap(_x)
              /\ (~isLoading /\ renderStep) => (nameToColorMap' = m /\ filledFrom(m)')
      ]_vars

\* Under the override a render has drawn a bar of a group the override
\* colours and a bar of a group it has no entry for.
C8_Witness ==
    /\ Rendered
    /\ nameToColorMap = Obj(Put(EmptyObj, "X", Str("red")))
    /\ filledFrom(nameToColorMap)
    /\ \E l \in 1..Len(svg.layerEls) : \E i \in 1..Len(svg.layerEls[l].bars) :
          svg.layerEls[l].bars[i].fill = Str("red")
    /\ \E l \in 1..Len(svg.layerEls) : \E i \in 1..Len(svg.layerEls[l].bars) :
          svg.layerEls[l].bars[i].fill = Undefined

\* C10: under every choice of the three field names, the normalized
\* records are one per input record, in order, with value the numeric cast
\* of the input's value-label field, group its group-label field and name
\* its name-label field.
C10_FieldsFromInputRecord ==
    Rendered =>
        /\ Len(data) = Len(input)
        /\ \A i \in 1..Len(data) :
              /\ recordAt(i)["value"] = ToNumber(Get(input[i], valueLabel))
              /\ recordAt(i)["group"] = Get(input[i], groupLabel)
              /\ recordAt(i)["name"] = Get(input[i], nameLabel)

(***************************************************************************)
(* The two padding accessors, and the chart with them.  A padding ratio    *)
(* is held in tenths.                                                      *)
(***************************************************************************)
exports_betweenBarsPadding(_x) ==
    /\ betweenBarsPadding' = _x
    /\ UNCHANGED <<margin, width, height, isLoading, isHorizontal, isAnimated,
                   nameLabel, groupLabel, valueLabel, tooltipThreshold,
                   betweenGroupsPadding, colorSchema, derived, nameToColorMap,
                   lastEvent, input>>

exports_betweenGroupsPadding(_x) ==
    /\ betweenGroupsPadding' = _x
    /\ UNCHANGED <<margin, width, height, isLoading, isHorizontal, isAnimated,
                   nameLabel, groupLabel, valueLabel, tooltipThreshold,
                   betweenBarsPadding, colorSchema, derived, nameToColorMap,
                   lastEvent, input>>

\* The padding ratios 0, 0.1 and 0.2.
Paddings == {0, 1, 2}

NextPadding ==
    \/ \E _data \in RenderData : exports(_data)
    \/ exportsAgain
    \/ \E _x \in Paddings : exports_betweenBarsPadding(_x)
    \/ \E _x \in Paddings : exports_betweenGroupsPadding(_x)

SpecPadding == Init /\ [][NextPadding]_vars

\* C11: every non-loading render gives the group sub-scale the configured
\* between-bars padding and the category scale the configured
\* between-groups padding, in both orientations.
C11_PaddingsIndependent ==
    [][(renderStep /\ ~isLoading) =>
          /\ groupScale'.padding = betweenBarsPadding
          /\ categoryScale'.padding = betweenGroupsPadding]_vars

(***************************************************************************)
(* One dataset rendered, and rendered again, under every choice of the     *)
(* three field names.                                                      *)
(***************************************************************************)
NextRerender ==
    \/ \E _data \in LabelledData : ~svg.built /\ exports(_data)
    \/ exportsAgain

SpecRerender == InitClean /\ [][NextRerender]_vars

\* What the claim compares between two renders: groups, the layers' keys,
\* totals and per-group values, the scales and the colour map.
sameGeometry ==
    /\ groups' = groups
    /\ Len(layers') = Len(layers)
    /\ \A l \in 1..Len(layers) : layers'[l].props = layers[l].props
    /\ xScale' = xScale
    /\ xScale2' = xScale2
    /\ yScale' = yScale
    /\ yScale2' = yScale2
    /\ nameToColorMap' = nameToColorMap

\* C12: a render that follows a render of the same array under the same
\* configuration leaves groups, layers, scales and colour map as they were.
C12_RerenderIdempotent == [][(Rendered /\ exportsAgain) => sameGeometry]_vars

\* C13: a render while the loading flag is set leaves the records of its
\* input as they were before the call, and leaves the normalized data, the
\* groups, the layers, the scales, the colour map and the delay table
\* unchanged.
C13_LoadingRenderRunsNoStage ==
    [][(isLoading /\ renderStep) =>
          /\ Deref(data)' = input'
          /\ data' = data
          /\ UNCHANGED <<groups, layers, xScale, xScale2, yScale, yScale2,
                         nameToColorMap, animationDelays>>]_vars

\* The value of the last record among the records of layer l whose group
\* is g.
lastInLayer(l, g) ==
    LET vs == layers[l].values
        hits == {j \in 1..Len(vs) : heap[vs[j]]["group"] = g}
    IN heap[vs[CHOOSE j \in hits : \A k \in hits : k <= j]]["value"]

\* C16: for every layer and every group key g among the records of its
\* category, the layer's property g is the value of the last of these
\* records that has group g.
C16_LayerMapsGroupToLastValue ==
    Rendered =>
        \A l \in 1..Len(layers) : \A j \in 1..Len(layers[l].values) :
            LET g == heap[layers[l].values[j]]["group"]
            IN Get(layers[l].props, ToStr(g)) = lastInLayer(l, g)

(***************************************************************************)
(* The chart with the orientation accessor: renders, changes of            *)
(* orientation that no render follows, and pointer events.                 *)
(***************************************************************************)
NextOrient ==
    \/ \E _data \in RenderData : exports(_data)
    \/ \E _x \in BOOLEAN : exports_isHorizontal(_x)
    \/ \E p \in Pointers : handleMouseMove(p[1], p[2])
    \/ \E p \in Pointers : handleCustomClick(p[1], p[2])

SpecOrient == Init /\ [][NextOrient]_vars

\* C14: whatever accessor calls and renders came before it, a pointer
\* handler completes without raising an error.
C14_HandlersNeverThrow == lastEvent.outcome # "threw"

\* The palette entry at index i - 1 modulo the palette length.
paletteAt(i) == Str(colorSchema[((i - 1) % Len(colorSchema)) + 1])

\* C15: after a first render without an override, the colour of the group
\* at index i of the canonical group order is the palette entry at index i
\* modulo the palette length.
C15_ColourByGroupIndex ==
    Rendered =>
        \A i \in 1..Len(groups) :
            Get(nameToColorMap[1], ToStr(groups[i])) = paletteAt(i)

(***************************************************************************)
(* The svg tree over a sequence of renders: animated or not, loading or    *)
(* not, of either orientation, with other data.                            *)
(***************************************************************************)
NextDom ==
    \/ \E _data \in RenderData : exports(_data)
    \/ exportsAgain
    \/ \E _flag \in BOOLEAN : exports_isLoading(_flag)
    \/ \E _x \in BOOLEAN : exports_isHorizontal(_x)
    \/ \E _x \in BOOLEAN : exports_isAnimated(_x)

SpecDom == Init /\ [][NextDom]_vars

\* C17: no bar of the svg tree has an undefined start delay.
C17_DelayIndexInRange ==
    Rendered =>
        \A l \in 1..Len(svg.layerEls) : \A j \in 1..Len(svg.layerEls[l].bars) :
            svg.layerEls[l].bars[j].delay # Undefined

\* Number of bars of the svg tree whose datum is record id.
barsOf(id) ==
    Cardinality({<<l, j>> \in (1..Len(svg.layerEls)) \X (1..Len(data)) :
                    /\ j <= Len(svg.layerEls[l].bars)
                    /\ svg.layerEls[l].bars[j].d = id})

\* C19: after a non-loading render the svg tree holds one layer group per
\* category of the data of that render and one bar per record of it, each
\* bar in the layer group of its record's category, and nothing else.
C19_OnlyLastRenderDrawn ==
    Rendered =>
        /\ Len(svg.layerEls) = Len(distinctByKey(Map(getName, Deref(data))))
        /\ \A l \in 1..Len(svg.layerEls) :
              /\ Len(svg.layerEls[l].bars) <= Len(data)
              /\ \A j \in 1..Len(svg.layerEls[l].bars) :
                    /\ svg.layerEls[l].bars[j].d \in {data[i] : i \in 1..Len(data)}
                    /\ Str(ToStr(heap[svg.layerEls[l].bars[j].d]["name"]))
                           = svg.layerEls[l].key
        /\ \A l, k \in 1..Len(svg.layerEls) :
              svg.layerEls[l].key = svg.layerEls[k].key => l = k
        /\ \A i \in 1..Len(data) : barsOf(data[i]) = 1

\* One bar is drawn, after an earlier render that had a second group.
C19_Witness ==
    /\ Rendered
    /\ Len(data) = 1
    /\ Len(svg.layerEls) = 1
    /\ Len(svg.layerEls[1].bars) = 1
    /\ nameToColorMap # Null
    /\ "Y" \in DOMAIN nameToColorMap[1]

\* A pointer move or a click on the chart.
pointerStep ==
    \E p \in Pointers : handleMouseMove(p[1], p[2]) \/ handleCustomClick(p[1], p[2])

\* C18: a pointer move or click changes no field of any record and no
\* layer.
C18_HitTestReadOnly == [][pointerStep => (heap' = heap /\ layers' = layers)]_vars

(***************************************************************************)
(* The chart with the width accessor: renders at a width above and at a    *)
(* width below the tooltip threshold, and pointer events.                  *)
(***************************************************************************)
exports_width(_x) ==
    /\ width' = _x
    /\ UNCHANGED <<margin, height, isLoading, isHorizontal, isAnimated, nameLabel,
                   groupLabel, valueLabel, tooltipThreshold, betweenBarsPadding,
                   betweenGroupsPadding, colorSchema, derived, nameToColorMap,
                   lastEvent, input>>

\* A width below the default tooltip threshold of 480, and the default.
Widths == {400, 960}

NextTooltip ==
    \/ \E _data \in RenderData : exports(_data)
    \/ \E _x \in Widths : exports_width(_x)
    \/ \E p \in Pointers : handleMouseMove(p[1], p[2])
    \/ \E p \in Pointers : handleCustomClick(p[1], p[2])

SpecTooltip == Init /\ [][NextTooltip]_vars

\* The width the most recent render computed chartWidth from.
widthAtRender == chartWidth + margin.left + margin.right

\* C20: while the width of the most recent render is not greater than the
\* tooltip threshold, no pointer event on the chart emits customMouseMove
\* or customClick.
C20_NoEventsBelowThreshold ==
    [][(Rendered /\ widthAtRender <= tooltipThreshold) =>
          ~(pointerStep /\ lastEvent'.outcome \in {"customMouseMove", "customClick"})
      ]_vars

====
